---- MODULE Spec2Model ----
(***************************************************************************)
(* Go-TransferScript: main.go's worker pool (main), the per-job executor   *)
(* (transferRepo), the configuration loader (loadConfig) and the table     *)
(* test of main_test.go (TestTransferRepo).                                *)
(*                                                                         *)
(* Text (error messages, result messages) is a sequence of tokens: the     *)
(* chunks of the formatted string in order, white space left out.          *)
(***************************************************************************)
EXTENDS Integers, Sequences, FiniteSets, Bags, TLC

\* ---------------------------------------------------------------- bounds
MaxRepos == 2
MaxExcerpt == 2

\* ------------------------------------------------------ program constants
numWorkers == 5
RetryCount == 3
DefaultRetryCount == 0
\* the client's timeout for one request; 0 is no timeout (never set in main)
ClientTimeout == 0

Workers == 1..numWorkers

\* ----------------------------------------------------------------- inputs
RepoNames == {"", "r1"}
UserNames == {"", "u"}
Tokens == {"", "tok"}
StatusCodes == {202, 404, 500}
TestStatusCodes ==
    (200..204) \cup (300..304) \cup (400..424) \cup (500..504)
Bodies == {<<"{msg}">>}
\* a response body longer than any excerpt limit considered
LongBody == [i \in 1..(MaxExcerpt + 1) |-> "{msg}"]
TestBodies == Bodies \cup {LongBody}
TransportErrs ==
    {<<"Post", "url:", "dial", "tcp:", "lookup", "host:", "no", "such", "host">>}

RepoLists == UNION {[1..n -> RepoNames] : n \in 0..MaxRepos}

Nil == <<>>

VARIABLES
    envOK,        \* godotenv.Load() finds and parses .env
    githubToken,  \* os.Getenv("GITHUB_TOKEN_CLASSIC")
    cfgFile,      \* config.json: [ok, originalUser, newUser, repositories]
    pc,           \* position of main
    allRepos,     \* appConfig.Repositories
    jobs,         \* chan string: [buf, cap, closed]
    results,      \* chan string: [buf, cap, closed]
    wg,           \* sync.WaitGroup counter
    sent,         \* index of the dispatch loop over allRepos
    wpc,          \* position of each worker goroutine
    wrepo,        \* repoName of the worker's current iteration
    wattempt,     \* HTTP attempts made by the current client.R().Post
    wres,         \* outcome of the latest attempt: [err, status, body]
    werr,         \* error returned by transferRepo (Nil for nil)
    successCount,
    failureCount,
    calls,        \* history: bag of repoNames passed to transferRepo
    requests,     \* history: set of HTTP requests put on the wire
    wloop,        \* number of worker goroutines started by the loop over w
    remote,       \* the remote API: [fixed, silent, answer]
    tally,        \* history: [nilReturns, errReturns, scanned]
    test          \* TestTransferRepo: [pc, server, repoName, attempt, res, err, failed]

vars == <<envOK, githubToken, cfgFile, pc, allRepos, jobs, results, wg, sent, wloop,
          wpc, wrepo, wattempt, wres, werr, successCount, failureCount,
          calls, requests, remote, tally, test>>

inputVars == <<envOK, githubToken, cfgFile, remote>>
mainVars == <<pc, allRepos, wg, sent, wloop, successCount, failureCount>>
workerVars == <<wpc, wrepo, wattempt, wres, werr>>
histVars == <<calls, requests, tally>>

\* ------------------------------------------------------------- text helpers
Itoa(n) == ToString(n)

\* strings.Contains at token granularity: sub is a contiguous run of s
Contains(s, sub) ==
    \E i \in 0..(Len(s) - Len(sub)) :
        \A j \in 1..Len(sub) : s[i + j] = sub[j]

BagOfSeq(s) ==
    LET idx(x) == {i \in 1..Len(s) : s[i] = x}
        rng == {s[i] : i \in 1..Len(s)}
    IN [x \in rng |-> Cardinality(idx(x))]

\* ------------------------------------------------------------ HTTP exchange
\* What one attempt of client.R()...Post(url) comes back with: a transport
\* error and no response, or a response with a status code and a body.
NoAnswer == [err |-> <<>>, status |-> 0, body |-> <<>>]
TransportFailure(e) == [err |-> e, status |-> 0, body |-> <<>>]
Response(code, b) == [err |-> Nil, status |-> code, body |-> b]

AnswersOf(codes) ==
    {TransportFailure(e) : e \in TransportErrs}
        \cup {Response(c, b) : c \in codes, b \in Bodies}

\* The remote API answers each attempt as it likes (fixed = FALSE), or every
\* attempt for a repository in the same way (fixed = TRUE, answer[repoName]);
\* a silent remote may also leave an attempt without any answer.
FreeRemote ==
    [fixed |-> FALSE, silent |-> FALSE, answer |-> [n \in RepoNames |-> NoAnswer]]

FixedRemotes ==
    {[fixed |-> TRUE, silent |-> FALSE, answer |-> f] :
        f \in [RepoNames -> AnswersOf(StatusCodes)]}

RemoteAnswers(rem, repoName) ==
    (IF rem.fixed THEN {rem.answer[repoName]} ELSE AnswersOf(StatusCodes))
    \cup (IF rem.silent THEN {NoAnswer} ELSE {})

\* the remote accepts every transfer it answers
SilentRemote ==
    [fixed |-> TRUE, silent |-> TRUE,
     answer |-> [n \in RepoNames |-> Response(202, CHOOSE b \in Bodies : TRUE)]]

\* What the client makes of an attempt: with a timeout set, an attempt the
\* remote leaves unanswered ends in a transport error; without one it does
\* not end.
DeadlineExceeded ==
    <<"Post", "url:", "context", "deadline", "exceeded">>

AttemptOutcome(ans) ==
    IF ans = NoAnswer /\ ClientTimeout > 0
    THEN TransportFailure(DeadlineExceeded)
    ELSE ans

\* The Content-Type the client gives a request whose body is set without
\* one: JSON for a map, a struct or a slice, plain text otherwise.
DetectContentType(bodyKind) ==
    IF bodyKind \in {"map", "struct", "slice"}
    THEN "application/json"
    ELSE "text/plain; charset=utf-8"

\* The request built by transferRepo
Request(transferURL, newUser, repoName, token) ==
    [method |-> "POST",
     url |-> transferURL,
     body |-> [new_owner |-> newUser, new_name |-> repoName],
     contentType |-> DetectContentType("map"),
     accept |-> "application/vnd.github+json",
     authorization |-> <<"Bearer", token>>,
     apiVersion |-> "2022-11-28"]

\* faulty variant: the two path parameters are passed in the wrong order
TransferAPIURL_Swapped(oUser, repoName) ==
    <<"https://api.github.com", "repos", repoName, oUser, "transfer">>

\* fmt.Sprintf("https://api.github.com/repos/%s/%s/transfer", oUser, repoName)
TransferAPIURL(oUser, repoName) ==
    <<"https://api.github.com", "repos", oUser, repoName, "transfer">>

\* faulty variant: the client gives up after the first attempt
NeedsRetry_Never(attempt, res, retryCount) == FALSE

\* faulty variant: the client also retries a response that is not 202
NeedsRetry_AnyFailure(attempt, res, retryCount) ==
    (res.err # Nil \/ res.status # 202) /\ attempt <= retryCount

\* faulty variant: the client also retries a 5xx response
NeedsRetry_ServerError(attempt, res, retryCount) ==
    (res.err # Nil \/ res.status >= 500) /\ attempt <= retryCount

\* The client's retry loop: after attempt number `attempt` came back with
\* `res`, another attempt is made iff it failed in transport and fewer than
\* retryCount retries were made so far.
NeedsRetry(attempt, res, retryCount) ==
    res.err # Nil /\ attempt <= retryCount

\* ------------------------------------------------------------- transferRepo
\* faulty variant: every 2xx status is taken for success
transferRepoResult_Any2xx(repoName, res) ==
    IF res.err # Nil
    THEN <<"client", "request", "for", "repo", repoName, "failed:">> \o res.err
    ELSE IF res.status \in 200..299 THEN Nil
    ELSE <<"repo", repoName, ":", "Unexpected", "status", "code", "(HTTP",
           Itoa(res.status), ")", ".", "Response:">> \o res.body

\* The error transferRepo returns for the final outcome `res` of the request
\* (Nil is a nil error).
transferRepoResult(repoName, res) ==
    LET http == <<"(HTTP", Itoa(res.status), ")", ".">>
        tail == <<"Response:">> \o res.body
    IN  IF res.err # Nil
        THEN <<"client", "request", "for", "repo", repoName, "failed:">> \o res.err
        ELSE CASE res.status = 202 -> Nil
               [] res.status = 401 ->
                    <<"repo", repoName, ":", "Unauthorized">> \o http
                    \o <<"Check", "GitHub", "token", "and", "permissions.">> \o tail
               [] res.status = 403 ->
                    <<"repo", repoName, ":", "Forbidden">> \o http
                    \o <<"API", "rate", "limits", "or", "insufficient",
                         "permissions.">> \o tail
               [] res.status = 404 ->
                    <<"repo", repoName, ":", "Repository", "or", "user", "not",
                      "found">> \o http \o tail
               [] res.status = 422 ->
                    <<"repo", repoName, ":", "Unprocessable", "Entity">> \o http
                    \o <<"Semantic", "errors.">> \o tail
               [] OTHER ->
                    <<"repo", repoName, ":", "Unexpected", "status", "code">>
                    \o http \o tail

\* --------------------------------------------------------- result messages
\* faulty variant: the success message is tagged [OK]
ResultMessage_OkTag(workerID, repoName, err) ==
    IF err # Nil
    THEN <<"[FAIL]", "Worker", Itoa(workerID), ",", "Repo", repoName, ":">> \o err
    ELSE <<"[OK]", "Worker", Itoa(workerID), ",", "Repo", repoName, ":",
           "Transfer", "successful">>

\* The message a worker sends on results for the error err of transferRepo
ResultMessage(workerID, repoName, err) ==
    IF err # Nil
    THEN <<"[FAIL]", "Worker", Itoa(workerID), ",", "Repo", repoName, ":">> \o err
    ELSE <<"[SUCCESS]", "Worker", Itoa(workerID), ",", "Repo", repoName, ":",
           "Transfer", "successful">>

\* faulty variant: the literal of the format is not compared
SscanfSuccess_AnyTag(resMsg) == Len(resMsg) >= 2

\* fmt.Sscanf(resMsg, "[SUCCESS]%s", new(string)) returns a nil error: the
\* text starts with the literal and a non-blank token follows it.
SscanfSuccess(resMsg) ==
    Len(resMsg) >= 2 /\ resMsg[1] = "[SUCCESS]"

\* --------------------------------------------------------------- loadConfig
\* faulty variant: the check of an empty repositories list is missing
loadConfigError_NoRepoCheck(file) ==
    IF ~file.ok THEN "read or unmarshal"
    ELSE IF file.originalUser = "" \/ file.newUser = "" THEN "users"
    ELSE ""

\* The error of loadConfig(filePath) ("" for a nil error)
loadConfigError(file) ==
    IF ~file.ok THEN "read or unmarshal"
    ELSE IF file.originalUser = "" \/ file.newUser = "" THEN "users"
    ELSE IF Len(file.repositories) = 0 THEN "repositories"
    ELSE ""

\* ----------------------------------------------------------------- channels
\* faulty variant: the buffer is one slot short of the job count
MakeChan_OneShort(n) ==
    [buf |-> <<>>, cap |-> IF n > 0 THEN n - 1 ELSE 0, closed |-> FALSE]

\* make(chan string, n)
MakeChan(n) == [buf |-> <<>>, cap |-> n, closed |-> FALSE]
NoChan == MakeChan(0)
CanSend(ch) == ch.closed \/ Len(ch.buf) < ch.cap
Send(ch, v) == [ch EXCEPT !.buf = Append(@, v)]
Close(ch) == [ch EXCEPT !.closed = TRUE]

\* ------------------------------------------------------------ initial state
ConfigFiles ==
    [ok : BOOLEAN, originalUser : UserNames, newUser : UserNames,
     repositories : RepoLists]

TestIdle ==
    [pc |-> "idle", server |-> 0, repoName |-> "", attempt |-> 0,
     res |-> NoAnswer, err |-> Nil, failed |-> FALSE]

PoolIdle ==
    /\ allRepos = <<>>
    /\ jobs = NoChan
    /\ results = NoChan
    /\ wg = 0
    /\ sent = 0
    /\ wloop = 0
    /\ wpc = [w \in Workers |-> "unstarted"]
    /\ wrepo = [w \in Workers |-> ""]
    /\ wattempt = [w \in Workers |-> 0]
    /\ wres = [w \in Workers |-> NoAnswer]
    /\ werr = [w \in Workers |-> Nil]
    /\ successCount = 0
    /\ failureCount = 0
    /\ calls = EmptyBag
    /\ requests = {}
    /\ tally = [nilReturns |-> 0, errReturns |-> 0, scanned |-> 0]

Init ==
    /\ envOK \in BOOLEAN
    /\ githubToken \in Tokens
    /\ cfgFile \in ConfigFiles
    /\ remote = FreeRemote
    /\ pc = "loadEnv"
    /\ PoolIdle
    /\ test = TestIdle

\* a run with one job more than there are workers, every one accepted
InitSat ==
    /\ envOK = TRUE
    /\ githubToken = "tok"
    /\ cfgFile = [ok |-> TRUE, originalUser |-> "u", newUser |-> "u",
                  repositories |-> [i \in 1..(numWorkers + 1) |-> "r1"]]
    /\ remote = [SilentRemote EXCEPT !.silent = FALSE]
    /\ pc = "loadEnv"
    /\ PoolIdle
    /\ test = TestIdle

\* a run against a remote that may leave an attempt without any answer
InitSilent ==
    /\ envOK \in BOOLEAN
    /\ githubToken \in Tokens
    /\ cfgFile \in ConfigFiles
    /\ remote = SilentRemote
    /\ pc = "loadEnv"
    /\ PoolIdle
    /\ test = TestIdle

\* the same run against a remote whose answer is a function of the job
InitFixed ==
    /\ envOK \in BOOLEAN
    /\ githubToken \in Tokens
    /\ cfgFile \in ConfigFiles
    /\ remote \in FixedRemotes
    /\ pc = "loadEnv"
    /\ PoolIdle
    /\ test = TestIdle

\* --------------------------------------------------------------------- main
\* godotenv.Load(); log.Fatalf on error
LoadEnv ==
    /\ pc = "loadEnv"
    /\ pc' = IF envOK THEN "getToken" ELSE "fatal"
    /\ UNCHANGED <<inputVars, allRepos, jobs, results, wg, sent, wloop,
                   successCount, failureCount, workerVars, histVars, test>>

\* os.Getenv("GITHUB_TOKEN_CLASSIC"); log.Fatal when it is empty
GetToken ==
    /\ pc = "getToken"
    /\ pc' = IF githubToken = "" THEN "fatal" ELSE "loadConfig"
    /\ UNCHANGED <<inputVars, allRepos, jobs, results, wg, sent, wloop,
                   successCount, failureCount, workerVars, histVars, test>>

\* loadConfig("config.json"); log.Fatalf on error
LoadConfig ==
    /\ pc = "loadConfig"
    /\ IF loadConfigError(cfgFile) # ""
       THEN pc' = "fatal" /\ UNCHANGED allRepos
       ELSE pc' = "setup" /\ allRepos' = cfgFile.repositories
    /\ UNCHANGED <<inputVars, jobs, results, wg, sent, wloop,
                   successCount, failureCount, workerVars, histVars, test>>

\* the len(allRepos) == 0 return, resty.New(), and the two make(chan ...)
Setup ==
    /\ pc = "setup"
    /\ IF Len(allRepos) = 0
       THEN pc' = "done" /\ UNCHANGED <<jobs, results>>
       ELSE /\ pc' = "startWorkers"
            /\ jobs' = MakeChan(Len(allRepos))
            /\ results' = MakeChan(Len(allRepos))
    /\ UNCHANGED <<inputVars, allRepos, wg, sent, wloop,
                   successCount, failureCount, workerVars, histVars, test>>

\* one iteration of for w := 1; w <= numWorkers; w++ { wg.Add(1); go ... }
StartWorker ==
    /\ pc = "startWorkers"
    /\ wloop < numWorkers
    /\ wloop' = wloop + 1
    /\ wg' = wg + 1
    /\ wpc' = [wpc EXCEPT ![wloop + 1] = "range"]
    /\ UNCHANGED <<inputVars, pc, allRepos, jobs, results, sent,
                   successCount, failureCount, wrepo, wattempt, wres, werr,
                   histVars, test>>

\* the loop over w ends
WorkersStarted ==
    /\ pc = "startWorkers"
    /\ wloop >= numWorkers
    /\ pc' = "dispatch"
    /\ UNCHANGED <<inputVars, allRepos, jobs, results, wg, sent, wloop,
                   successCount, failureCount, workerVars, histVars, test>>

\* faulty variant: close(jobs) sits inside the loop
Dispatch_CloseInLoop ==
    /\ pc = "dispatch"
    /\ sent < Len(allRepos)
    /\ CanSend(jobs)
    /\ IF jobs.closed
       THEN pc' = "panic" /\ UNCHANGED <<jobs, sent>>
       ELSE /\ jobs' = Close(Send(jobs, allRepos[sent + 1]))
            /\ sent' = sent + 1
            /\ UNCHANGED pc
    /\ UNCHANGED <<inputVars, allRepos, results, wg, wloop,
                   successCount, failureCount, workerVars, histVars, test>>

\* one iteration of for _, repo := range allRepos { jobs <- repo }
Dispatch ==
    /\ pc = "dispatch"
    /\ sent < Len(allRepos)
    /\ CanSend(jobs)
    /\ IF jobs.closed
       THEN pc' = "panic" /\ UNCHANGED <<jobs, sent>>
       ELSE /\ jobs' = Send(jobs, allRepos[sent + 1])
            /\ sent' = sent + 1
            /\ UNCHANGED pc
    /\ UNCHANGED <<inputVars, allRepos, results, wg, wloop,
                   successCount, failureCount, workerVars, histVars, test>>

\* faulty variant: main forgets close(jobs)
CloseJobs_NoClose ==
    /\ pc = "dispatch"
    /\ sent >= Len(allRepos)
    /\ pc' = "wait"
    /\ UNCHANGED <<inputVars, allRepos, jobs, results, wg, sent, wloop,
                   successCount, failureCount, workerVars, histVars, test>>

\* close(jobs)
CloseJobs ==
    /\ pc = "dispatch"
    /\ sent >= Len(allRepos)
    /\ jobs' = Close(jobs)
    /\ pc' = "wait"
    /\ UNCHANGED <<inputVars, allRepos, results, wg, sent, wloop,
                   successCount, failureCount, workerVars, histVars, test>>

\* faulty variant: main does not wait for the workers
Wait_NoJoin ==
    /\ pc = "wait"
    /\ pc' = "closeResults"
    /\ UNCHANGED <<inputVars, allRepos, jobs, results, wg, sent, wloop,
                   successCount, failureCount, workerVars, histVars, test>>

\* wg.Wait() returns
Wait ==
    /\ pc = "wait"
    /\ wg = 0
    /\ pc' = "closeResults"
    /\ UNCHANGED <<inputVars, allRepos, jobs, results, wg, sent, wloop,
                   successCount, failureCount, workerVars, histVars, test>>

\* close(results)
CloseResults ==
    /\ pc = "closeResults"
    /\ results' = Close(results)
    /\ pc' = "summary"
    /\ UNCHANGED <<inputVars, allRepos, jobs, wg, sent, wloop,
                   successCount, failureCount, workerVars, histVars, test>>

\* one iteration of for resMsg := range results { ... }
ReadResult ==
    /\ pc = "summary"
    /\ results.buf # <<>>
    /\ results' = [results EXCEPT !.buf = Tail(@)]
    /\ IF SscanfSuccess(Head(results.buf))
       THEN successCount' = successCount + 1 /\ UNCHANGED failureCount
       ELSE failureCount' = failureCount + 1 /\ UNCHANGED successCount
    /\ tally' = [tally EXCEPT !.scanned = @ + 1]
    /\ UNCHANGED <<inputVars, pc, allRepos, jobs, wg, sent, wloop,
                   workerVars, calls, requests, test>>

\* the range over results ends (closed and drained); the final log line
Finish ==
    /\ pc = "summary"
    /\ results.buf = <<>>
    /\ results.closed
    /\ pc' = "done"
    /\ UNCHANGED <<inputVars, allRepos, jobs, results, wg, sent, wloop,
                   successCount, failureCount, workerVars, histVars, test>>

Running == pc \notin {"done", "fatal", "panic"}

\* ------------------------------------------------------------------ workers
\* faulty variant: the job is read but stays in the queue
WorkerRecv_NoDequeue(w) ==
    /\ Running
    /\ wpc[w] = "range"
    /\ jobs.buf # <<>>
    /\ wrepo' = [wrepo EXCEPT ![w] = Head(jobs.buf)]
    /\ wattempt' = [wattempt EXCEPT ![w] = 0]
    /\ wpc' = [wpc EXCEPT ![w] = "transfer"]
    /\ calls' = calls (+) SetToBag({Head(jobs.buf)})
    /\ UNCHANGED <<inputVars, mainVars, jobs, results, wres, werr, requests,
                   tally, test>>

\* faulty variant: a worker takes the next job before publishing
WorkerRecv_WhileBusy(w) ==
    /\ Running
    /\ wpc[w] \in {"range", "publish"}
    /\ jobs.buf # <<>>
    /\ jobs' = [jobs EXCEPT !.buf = Tail(@)]
    /\ wrepo' = [wrepo EXCEPT ![w] = Head(jobs.buf)]
    /\ wattempt' = [wattempt EXCEPT ![w] = 0]
    /\ wpc' = [wpc EXCEPT ![w] = "transfer"]
    /\ calls' = calls (+) SetToBag({Head(jobs.buf)})
    /\ UNCHANGED <<inputVars, mainVars, results, wres, werr, requests, tally,
                   test>>

\* for repoName := range jobs: a job is received
WorkerRecv(w) ==
    /\ Running
    /\ wpc[w] = "range"
    /\ jobs.buf # <<>>
    /\ jobs' = [jobs EXCEPT !.buf = Tail(@)]
    /\ wrepo' = [wrepo EXCEPT ![w] = Head(jobs.buf)]
    /\ wattempt' = [wattempt EXCEPT ![w] = 0]
    /\ wpc' = [wpc EXCEPT ![w] = "transfer"]
    /\ calls' = calls (+) SetToBag({Head(jobs.buf)})
    /\ UNCHANGED <<inputVars, mainVars, results, wres, werr, requests, tally,
                   test>>

\* one HTTP attempt of the request of transferRepo; after the last one
\* transferRepo returns its error
WorkerAttempt(w) ==
    /\ Running
    /\ wpc[w] = "transfer"
    /\ \E got \in RemoteAnswers(remote, wrepo[w]) :
        LET ans == AttemptOutcome(got)
        IN  IF ans = NoAnswer
            THEN /\ wpc' = [wpc EXCEPT ![w] = "waiting"]
                 /\ UNCHANGED <<wattempt, wres, werr, tally>>
            ELSE
        /\ wattempt' = [wattempt EXCEPT ![w] = @ + 1]
        /\ wres' = [wres EXCEPT ![w] = ans]
        /\ IF NeedsRetry(wattempt[w] + 1, ans, RetryCount)
           THEN UNCHANGED <<wpc, werr, tally>>
           ELSE /\ wpc' = [wpc EXCEPT ![w] = "publish"]
                /\ werr' = [werr EXCEPT ![w] = transferRepoResult(wrepo[w], ans)]
                /\ tally' = IF transferRepoResult(wrepo[w], ans) = Nil
                            THEN [tally EXCEPT !.nilReturns = @ + 1]
                            ELSE [tally EXCEPT !.errReturns = @ + 1]
    /\ requests' = requests \cup
            {Request(TransferAPIURL(cfgFile.originalUser, wrepo[w]),
                     cfgFile.newUser, wrepo[w], githubToken)}
    /\ UNCHANGED <<inputVars, mainVars, jobs, results, wrepo, calls, test>>

\* faulty variant: a failure is logged but not sent on results
WorkerPublish_DropFailure(w) ==
    /\ Running
    /\ wpc[w] = "publish"
    /\ CanSend(results)
    /\ results' = IF werr[w] # Nil THEN results
                  ELSE Send(results, ResultMessage(w, wrepo[w], werr[w]))
    /\ wpc' = [wpc EXCEPT ![w] = "range"]
    /\ wrepo' = [wrepo EXCEPT ![w] = ""]
    /\ wattempt' = [wattempt EXCEPT ![w] = 0]
    /\ wres' = [wres EXCEPT ![w] = NoAnswer]
    /\ werr' = [werr EXCEPT ![w] = Nil]
    /\ UNCHANGED <<inputVars, mainVars, jobs, histVars, test>>

\* faulty variant: a worker returns after publishing a failure
WorkerPublish_StopOnFailure(w) ==
    /\ Running
    /\ wpc[w] = "publish"
    /\ CanSend(results)
    /\ results' = Send(results, ResultMessage(w, wrepo[w], werr[w]))
    /\ wpc' = [wpc EXCEPT ![w] = IF werr[w] # Nil THEN "finished" ELSE "range"]
    /\ wg' = IF werr[w] # Nil THEN wg - 1 ELSE wg
    /\ wrepo' = [wrepo EXCEPT ![w] = ""]
    /\ wattempt' = [wattempt EXCEPT ![w] = 0]
    /\ wres' = [wres EXCEPT ![w] = NoAnswer]
    /\ werr' = [werr EXCEPT ![w] = Nil]
    /\ UNCHANGED <<inputVars, pc, allRepos, sent, wloop, successCount,
                   failureCount, jobs, histVars, test>>

\* results <- fmt.Sprintf(...); the iteration's locals go out of scope
WorkerPublish(w) ==
    /\ Running
    /\ wpc[w] = "publish"
    /\ CanSend(results)
    /\ IF results.closed
       THEN /\ pc' = "panic"
            /\ UNCHANGED <<results, workerVars>>
       ELSE /\ results' = Send(results, ResultMessage(w, wrepo[w], werr[w]))
            /\ wpc' = [wpc EXCEPT ![w] = "range"]
            /\ wrepo' = [wrepo EXCEPT ![w] = ""]
            /\ wattempt' = [wattempt EXCEPT ![w] = 0]
            /\ wres' = [wres EXCEPT ![w] = NoAnswer]
            /\ werr' = [werr EXCEPT ![w] = Nil]
            /\ UNCHANGED pc
    /\ UNCHANGED <<inputVars, allRepos, wg, sent, wloop, successCount,
                   failureCount, jobs, histVars, test>>

\* the range over jobs ends (closed and drained); defer wg.Done()
WorkerExit(w) ==
    /\ Running
    /\ wpc[w] = "range"
    /\ jobs.buf = <<>>
    /\ jobs.closed
    /\ wpc' = [wpc EXCEPT ![w] = "finished"]
    /\ wg' = wg - 1
    /\ UNCHANGED <<inputVars, pc, allRepos, sent, wloop, successCount,
                   failureCount, jobs, results, wrepo, wattempt, wres, werr,
                   histVars, test>>

MainStep ==
    \/ LoadEnv
    \/ GetToken
    \/ LoadConfig
    \/ Setup
    \/ StartWorker
    \/ WorkersStarted
    \/ Dispatch
    \/ CloseJobs
    \/ Wait
    \/ CloseResults
    \/ ReadResult
    \/ Finish

WorkerStep(w) ==
    \/ WorkerRecv(w)
    \/ WorkerAttempt(w)
    \/ WorkerPublish(w)
    \/ WorkerExit(w)

Next ==
    \/ MainStep
    \/ \E w \in Workers : WorkerStep(w)

Spec == Init /\ [][Next]_vars

SpecFixed == InitFixed /\ [][Next]_vars

SpecSat == InitSat /\ [][Next]_vars

SpecSilent == InitSilent /\ [][Next]_vars

\* the Go scheduler runs every goroutine that can take a step, and every
\* HTTP attempt comes back
FairSpec ==
    /\ Spec
    /\ WF_vars(MainStep)
    /\ \A w \in Workers : WF_vars(WorkerStep(w))

\* ---------------------------------------------------------- TestTransferRepo
\* The table's handlers answer with one status code; the last row has no
\* server and an address that does not resolve.  The statuses beyond the
\* table's rows exercise transferRepo alone.
NoServer == 0
TestRows == {202, 401, 403, 404, 422, 500, NoServer}

expectError(server) == server # 202

expectedErrorMsgSubstring(server) ==
    CASE server = 401 -> <<"Unauthorized", "(HTTP", "401", ")">>
      [] server = 403 -> <<"Forbidden", "(HTTP", "403", ")">>
      [] server = 404 ->
            <<"Repository", "or", "user", "not", "found", "(HTTP", "404", ")">>
      [] server = 422 -> <<"Unprocessable", "Entity", "(HTTP", "422", ")">>
      [] server = 500 -> <<"Unexpected", "status", "code", "(HTTP", "500", ")">>
      [] server = NoServer -> <<"failed", "to", "send", "transfer", "request">>
      [] OTHER -> <<>>

\* fmt.Sprintf("%s/repos/%s/%s/transfer", server.URL, ...) or the invalid host
TestURL(server, repoName) ==
    <<IF server = NoServer THEN "http://.invalidlocaldomain:12345"
      ELSE "http://127.0.0.1", "repos", "test-orig-user", repoName, "transfer">>

InitTest ==
    /\ envOK = FALSE
    /\ githubToken = ""
    /\ cfgFile = [ok |-> FALSE, originalUser |-> "", newUser |-> "",
                  repositories |-> <<>>]
    /\ remote = FreeRemote
    /\ pc = "notRun"
    /\ PoolIdle
    /\ \E server \in TestStatusCodes \cup {NoServer}, repoName \in RepoNames :
        test = [TestIdle EXCEPT !.pc = "call", !.server = server,
                                !.repoName = repoName]

\* one HTTP attempt of transferRepo(client, transferURL, ...) with the
\* client of newTestClient(); after the last one transferRepo returns
TestPost ==
    /\ test.pc = "call"
    /\ \E ans \in IF test.server = NoServer
                  THEN {TransportFailure(e) : e \in TransportErrs}
                  ELSE {Response(test.server, b) : b \in TestBodies} :
        test' = IF NeedsRetry(test.attempt + 1, ans, DefaultRetryCount)
                THEN [test EXCEPT !.attempt = @ + 1, !.res = ans]
                ELSE [test EXCEPT !.attempt = @ + 1, !.res = ans,
                                  !.err = transferRepoResult(test.repoName, ans),
                                  !.pc = "assert"]
    /\ requests' = requests \cup
            {Request(TestURL(test.server, test.repoName), "test-new-user",
                     test.repoName, "test-token")}
    /\ UNCHANGED <<inputVars, mainVars, jobs, results, workerVars, calls, tally>>

\* the assertions of t.Run for a row of the table
TestAssert ==
    /\ test.pc = "assert"
    /\ test.server \in TestRows
    /\ test' = [test EXCEPT
            !.pc = "done",
            !.failed =
                IF expectError(test.server)
                THEN \/ test.err = Nil
                     \/ ~Contains(test.err, expectedErrorMsgSubstring(test.server))
                ELSE test.err # Nil]
    /\ UNCHANGED <<inputVars, mainVars, jobs, results, workerVars, histVars>>

NextTest ==
    \/ TestPost
    \/ TestAssert

SpecTest == InitTest /\ [][NextTest]_vars

\* =================================================================== claims
AllFinished == \A w \in Workers : wpc[w] = "finished"

K == Len(allRepos)

InFlight == {w \in Workers : wpc[w] \in {"transfer", "waiting", "publish"}}

\* the repository name a result message carries after "Repo"
RepoOf(msg) == msg[6]

SeqMap(Op(_), s) == [i \in 1..Len(s) |-> Op(s[i])]

BagOfSet(S, Op(_)) ==
    [x \in {Op(e) : e \in S} |-> Cardinality({e \in S : Op(e) = x})]

InFlightRepos == BagOfSet(InFlight, LAMBDA w : wrepo[w])

PublishedRepos == BagOfSeq(SeqMap(RepoOf, results.buf))

Aggregating == pc \in {"summary", "done"}

IsFail(msg) == msg[1] = "[FAIL]"

TransportText == <<"client", "request", "for", "repo">>

\* C1: when main reaches the final log line it has read exactly K messages,
\* successCount + failureCount = K = len(allRepos); while it reads, the
\* messages read and the messages still to read add up to K.
C1_CountsSumToK ==
    Aggregating =>
        /\ K >= 1
        /\ successCount + failureCount + Len(results.buf) = K
        /\ pc = "done" => results.buf = <<>> /\ successCount + failureCount = K

C1_Witness ==
    pc = "done" /\ K = 2 /\ successCount = 1 /\ failureCount = 1

\* C2: every entry of the list is enqueued once and dequeued by one worker:
\* the names passed to transferRepo and the names still queued are the names
\* enqueued so far, each dequeued name is held by one worker or published
\* once, and at the end the names passed are the names of the list.
C2_ExactlyOnce ==
    /\ calls (+) BagOfSeq(jobs.buf) = BagOfSeq(SubSeq(allRepos, 1, sent))
    /\ ~Aggregating => InFlightRepos (+) PublishedRepos = calls
    /\ pc = "done" => calls = BagOfSeq(allRepos)

C2_Witness ==
    /\ pc = "done"
    /\ allRepos = <<"r1", "r1">>
    /\ calls = SetToBag({"r1"}) (+) SetToBag({"r1"})

\* C3: under fair scheduling, with every HTTP attempt coming back, the run
\* ends: in a fatal error, or with main at the final log line, all workers
\* returned and the WaitGroup at zero.
C3_Terminates == <>(pc = "fatal" \/ (pc = "done" /\ AllFinished /\ wg = 0))

C3_Witness ==
    /\ pc = "done"
    /\ AllFinished
    /\ K = 1
    /\ successCount + failureCount = 1

\* C4: results is closed and read only after the join: from close(results)
\* on every worker has returned, every job was passed to transferRepo and
\* none is in flight, all K messages are in results when it is closed, and
\* nothing is counted before.
C4_SummaryAfterJoin ==
    /\ pc \in {"closeResults", "summary", "done"} =>
            /\ AllFinished
            /\ wg = 0
            /\ InFlight = {}
            /\ BagCardinality(calls) = K
    /\ pc = "closeResults" => Len(results.buf) = K
    /\ results.closed <=> Aggregating
    /\ ~Aggregating => successCount = 0 /\ failureCount = 0

C4_Witness ==
    pc = "summary" /\ K = 2 /\ Len(results.buf) = 2 /\ results.closed

\* C5: transferRepo classifies the status code of a response: 202 gives a
\* nil error, 401 Unauthorized, 403 Forbidden, 404 not found, 422
\* Unprocessable Entity, any other code Unexpected status code; only 202
\* gives a nil error.
C5_Classification ==
    (test.pc \in {"assert", "done"} /\ test.server # NoServer) =>
        LET c == test.server
            e == test.err
        IN  /\ (c = 202) <=> (e = Nil)
            /\ c = 401 => Contains(e, <<"Unauthorized">>)
            /\ c = 403 => Contains(e, <<"Forbidden">>)
            /\ c = 404 => Contains(e, <<"Repository", "or", "user", "not", "found">>)
            /\ c = 422 => Contains(e, <<"Unprocessable", "Entity">>)
            /\ c \notin {202, 401, 403, 404, 422} =>
                    Contains(e, <<"Unexpected", "status", "code">>)
            /\ c # 202 => Contains(e, <<"(HTTP", Itoa(c), ")">>)

C5_Witness ==
    /\ test.pc = "assert"
    /\ test.server = 301
    /\ Contains(test.err, <<"Unexpected", "status", "code", "(HTTP", "301", ")">>)

\* C6: a worker publishes a transport failure only when the retries are
\* used up (after attempt RetryCount + 1), the message is a [FAIL] carrying
\* the client error, and failed attempts publish nothing: the messages
\* published and the jobs in flight are the jobs dequeued, one each.
C6_TransportFailureOnce ==
    /\ \A w \in Workers :
        (wpc[w] = "publish" /\ wres[w].err # Nil) =>
            /\ wattempt[w] = RetryCount + 1
            /\ Contains(werr[w], TransportText)
            /\ IsFail(ResultMessage(w, wrepo[w], werr[w]))
    /\ \A w \in Workers :
        (wpc[w] = "transfer" /\ wattempt[w] >= 1) => wres[w].err # Nil
    /\ ~Aggregating =>
            Cardinality(InFlight) + Len(results.buf) = BagCardinality(calls)

C6_Witness ==
    /\ pc = "summary"
    /\ K = 1
    /\ Len(results.buf) = 1
    /\ IsFail(results.buf[1])
    /\ Contains(results.buf[1], TransportText)

\* C7 (as claimed): when the request cannot be sent, transferRepo returns a
\* non-nil error whose text contains "failed to send transfer request".
C7_FailedToSendText ==
    (test.pc \in {"assert", "done"} /\ test.server = NoServer) =>
        /\ test.err # Nil
        /\ Contains(test.err, <<"failed", "to", "send", "transfer", "request">>)

\* C8 (as claimed): no job gets more than N = 3 HTTP attempts.
C8_AtMostRetryCountAttempts ==
    \A w \in Workers : wattempt[w] <= RetryCount

\* C8 (amended): a job gets at most RetryCount + 1 = 4 HTTP attempts, the
\* first and up to 3 retries, and an attempt after the first is made only
\* when the attempt before it ended in a transport error.
C8_AttemptsBounded ==
    [][\A w \in Workers :
        /\ wattempt'[w] <= RetryCount + 1
        /\ (wattempt'[w] = wattempt[w] + 1 /\ wattempt[w] >= 1) =>
                wres[w].err # Nil]_vars

C8_Witness ==
    \E w \in Workers :
        wpc[w] = "publish" /\ wattempt[w] = RetryCount + 1 /\ wres[w].err = Nil

\* C9: with an empty credential or an invalid configuration (empty
\* originalUser, newUser or repositories) main never gets past loadConfig
\* other than into the fatal exit, and nothing was started: no worker, no
\* channel, no job enqueued, no call of transferRepo, no HTTP request.
InvalidInput ==
    \/ githubToken = ""
    \/ cfgFile.originalUser = ""
    \/ cfgFile.newUser = ""
    \/ cfgFile.repositories = <<>>

NothingStarted ==
    /\ wloop = 0
    /\ \A w \in Workers : wpc[w] = "unstarted"
    /\ jobs = NoChan
    /\ results = NoChan
    /\ sent = 0
    /\ calls = EmptyBag
    /\ requests = {}

C9_FatalBeforeDispatch ==
    /\ InvalidInput =>
            /\ pc \in {"loadEnv", "getToken", "loadConfig", "fatal"}
            /\ NothingStarted
    /\ pc = "fatal" => NothingStarted

C9_Witness ==
    /\ pc = "fatal"
    /\ envOK
    /\ githubToken # ""
    /\ cfgFile.ok
    /\ cfgFile.originalUser # ""
    /\ cfgFile.newUser # ""
    /\ cfgFile.repositories = <<>>

\* C10: a failed job does not abort the run or stop its worker: once the
\* workers run main never exits fatally or panics, a worker returns only
\* when jobs is closed and drained, a worker that publishes a failure is
\* back at the range over jobs with nobody else disturbed, and the run ends
\* at the final log line with all K jobs counted.
C10_FailuresIsolated ==
    /\ [](wloop > 0 => pc \notin {"fatal", "panic"})
    /\ [](\A w \in Workers :
            wpc[w] = "finished" => jobs.closed /\ jobs.buf = <<>>)
    /\ [][\A w \in Workers :
            (wpc[w] = "publish" /\ werr[w] # Nil /\ wpc'[w] # "publish") =>
                /\ wpc'[w] = "range"
                /\ pc' = pc
                /\ Len(results'.buf) = Len(results.buf) + 1
                /\ IsFail(results'.buf[Len(results'.buf)])
                /\ \A v \in Workers \ {w} : wpc'[v] = wpc[v]]_vars
    /\ <>(pc = "fatal" \/
            (pc = "done" /\ successCount + failureCount = K))

C10_Witness ==
    \E w \in Workers :
        /\ wpc[w] = "transfer"
        /\ Len(results.buf) = 1
        /\ IsFail(results.buf[1])
        /\ results.buf[1][3] = Itoa(w)

\* the outcome kind a result message shows, and the kind an answer of the
\* remote stands for
KindOfMsg(msg) ==
    IF msg[1] = "[SUCCESS]" THEN "Success"
    ELSE IF Contains(msg, TransportText) THEN "TransportError"
    ELSE IF Contains(msg, <<"Unauthorized">>) THEN "Unauthorized"
    ELSE IF Contains(msg, <<"Forbidden">>) THEN "Forbidden"
    ELSE IF Contains(msg, <<"Repository", "or", "user", "not", "found">>)
        THEN "NotFound"
    ELSE IF Contains(msg, <<"Unprocessable", "Entity">>) THEN "Unprocessable"
    ELSE "Unexpected"

KindOfAnswer(ans) ==
    IF ans.err # Nil THEN "TransportError"
    ELSE CASE ans.status = 202 -> "Success"
           [] ans.status = 401 -> "Unauthorized"
           [] ans.status = 403 -> "Forbidden"
           [] ans.status = 404 -> "NotFound"
           [] ans.status = 422 -> "Unprocessable"
           [] OTHER -> "Unexpected"

JobOutcome(msg) == <<RepoOf(msg), KindOfMsg(msg)>>

ExpectedOutcome(repoName) == <<repoName, KindOfAnswer(remote.answer[repoName])>>

ExpectedSuccesses ==
    Cardinality({i \in 1..K : KindOfAnswer(remote.answer[allRepos[i]]) = "Success"})

\* C11: against a remote whose answer is a function of the job, the run's
\* outcome is a function of the list alone: in every interleaving the
\* messages in results at the join carry, up to order and worker id, the
\* kinds the remote's answers stand for, and the final counts are the
\* numbers of jobs answered 202 and not 202.
C11_OutcomeKindsFixed ==
    /\ pc = "closeResults" =>
            BagOfSeq(SeqMap(JobOutcome, results.buf))
                = BagOfSeq(SeqMap(ExpectedOutcome, allRepos))
    /\ pc = "done" =>
            /\ successCount = ExpectedSuccesses
            /\ failureCount = K - ExpectedSuccesses

C11_Witness ==
    /\ pc = "closeResults"
    /\ allRepos = <<"r1", "">>
    /\ RepoOf(results.buf[1]) = ""
    /\ results.buf[1][3] # results.buf[2][3]
    /\ KindOfMsg(results.buf[1]) = "TransportError"
    /\ KindOfMsg(results.buf[2]) = "Success"

\* a worker whose current job has had at least one HTTP attempt
Requested(w) ==
    wpc[w] = "publish" \/ (wpc[w] = "transfer" /\ wattempt[w] >= 1)

\* C12: every request on the wire is a POST to
\* /repos/<originalUser>/<repoName>/transfer of api.github.com for a
\* repoName passed to transferRepo, with Authorization: Bearer <token>, the
\* Accept and API-version headers, Content-Type application/json and the
\* body {new_owner: newUser, new_name: repoName}; every job that had an
\* attempt has its request among them.
C12_RequestShape ==
    /\ \A r \in requests :
        /\ r.method = "POST"
        /\ \E n \in BagToSet(calls) :
            /\ r.url = <<"https://api.github.com", "repos",
                         cfgFile.originalUser, n, "transfer">>
            /\ r.body = [new_owner |-> cfgFile.newUser, new_name |-> n]
        /\ r.authorization = <<"Bearer", githubToken>>
        /\ r.accept = "application/vnd.github+json"
        /\ r.apiVersion = "2022-11-28"
        /\ r.contentType = "application/json"
    /\ \A w \in Workers :
        Requested(w) =>
            \E r \in requests : r.url[4] = wrepo[w] /\ r.body.new_name = wrepo[w]

C12_Witness ==
    /\ Cardinality(requests) = 2
    /\ \E r \in requests : r.body.new_name = "r1" /\ r.url[4] = "r1"
    /\ \E w \in Workers : Requested(w) /\ wrepo[w] = "r1"

SuccessTagged == {i \in 1..Len(results.buf) : results.buf[i][1] = "[SUCCESS]"}

C14_ResponseIsTerminal ==
    \A w \in Workers :
        /\ (wpc[w] = "transfer" /\ wattempt[w] >= 1) => wres[w].err # Nil
        /\ (wattempt[w] >= 1 /\ wres[w].err = Nil) =>
                /\ wpc[w] = "publish"
                /\ werr[w] = transferRepoResult(wrepo[w], wres[w])
                /\ KindOfMsg(ResultMessage(w, wrepo[w], werr[w]))
                        = KindOfAnswer(wres[w])

C14_Witness ==
    \E w \in Workers :
        /\ wpc[w] = "publish"
        /\ wattempt[w] = 1
        /\ wres[w].status = 500
        /\ KindOfMsg(ResultMessage(w, wrepo[w], werr[w])) = "Unexpected"

\* the jobs dequeued whose outcome is not yet published
InFlightJobs == BagCardinality(calls) - Len(results.buf) - tally.scanned

\* C15: the jobs dequeued and not yet published are the jobs held by the
\* workers inside their loop body, one per worker, so never more than
\* numWorkers, also when more jobs than workers are queued.
C15_InFlightBounded ==
    /\ InFlightJobs = Cardinality(InFlight)
    /\ InFlightJobs <= numWorkers
    /\ InFlightJobs + Len(jobs.buf) + Len(results.buf) + tally.scanned = sent

C15_Witness ==
    /\ K = numWorkers + 1
    /\ InFlightJobs = numWorkers
    /\ Len(jobs.buf) = 1

\* the number of tokens of the response body an error text carries
BodyCarried(err) ==
    LET at == {i \in 1..Len(err) : err[i] = "Response:"}
    IN  IF at = {} THEN 0 ELSE Len(err) - (CHOOSE i \in at : TRUE)

\* C16: a Failure outcome names its repository, carries the status code when
\* a response was received, and carries no more than a bounded excerpt of the
\* response body; the result message built from it names the repository.
C16_BoundedExcerpt ==
    (test.pc \in {"assert", "done"} /\ test.err # Nil) =>
        /\ Contains(test.err, <<"repo", test.repoName>>)
        /\ test.res.err = Nil =>
                /\ Contains(test.err, <<"(HTTP", Itoa(test.res.status), ")">>)
                /\ BodyCarried(test.err) <= MaxExcerpt
        /\ RepoOf(ResultMessage(1, test.repoName, test.err)) = test.repoName

\* C17: no job with an empty repository name is enqueued or handed to
\* transferRepo, whatever configuration loadConfig accepted.
C17_NoEmptyNames ==
    /\ \A i \in 1..Len(jobs.buf) : jobs.buf[i] # ""
    /\ \A w \in Workers : wpc[w] \in {"transfer", "publish"} => wrepo[w] # ""
    /\ ~BagIn("", calls)
    /\ \A r \in requests : r.body.new_name # ""

\* C18: an attempt the remote never answers cannot hold a worker: a worker
\* waiting for a response always has a step to take, and a run that has not
\* ended always has a step to take.
C18_AttemptsComeBack ==
    /\ \A w \in Workers : wpc[w] = "waiting" => ENABLED WorkerStep(w)
    /\ Running => ENABLED Next

\* C19: no send meets a closed channel. jobs is closed only once main has
\* sent all K jobs and left the dispatch loop, and every job is then either
\* queued or dequeued; results is closed only once every worker has
\* returned; the run never panics.
C19_NoSendOnClosed ==
    /\ pc # "panic"
    /\ jobs.closed =>
            /\ sent = K
            /\ pc \in {"wait", "closeResults", "summary", "done"}
            /\ Len(jobs.buf) + BagCardinality(calls) = K
    /\ results.closed =>
            /\ AllFinished
            /\ wg = 0
            /\ pc \in {"summary", "done"}

C19_Witness ==
    /\ jobs.closed
    /\ ~results.closed
    /\ \E w \in Workers : wpc[w] = "publish"
    /\ \E w \in Workers : wpc[w] = "finished"

\* C20: no send has to wait. Both channels hold K slots and never more than
\* K messages; whenever main is about to send a job, and whenever a worker
\* is about to publish, the channel is open and has a free slot.
C20_SendsNeverBlock ==
    /\ Len(jobs.buf) <= jobs.cap
    /\ Len(results.buf) <= results.cap
    /\ pc \in {"startWorkers", "dispatch", "wait", "closeResults", "summary"}
            => jobs.cap = K /\ results.cap = K
    /\ (pc = "dispatch" /\ sent < K) =>
            ~jobs.closed /\ Len(jobs.buf) < jobs.cap
    /\ \A w \in Workers : wpc[w] = "publish" =>
            ~results.closed /\ Len(results.buf) < results.cap

C20_Witness ==
    /\ pc = "wait"
    /\ K >= 2
    /\ Len(results.buf) = K - 1
    /\ \E w \in Workers : wpc[w] = "publish"

====
